---- MODULE Spec2Model ----
(***************************************************************************)
(* Model of cli/src/args.rs of rgb-contracts: the ledger ("stock") store   *)
(* with first-run initialisation (load_stock), the bindings of a ledger    *)
(* and a wallet runtime (rgb_stock, rgb_wallet, rgb_wallet_from_stock),    *)
(* the selection of the transaction resolver (resolver) and the selection  *)
(* of the wallet descriptor (DescrRgbOpts::descriptor).                    *)
(*                                                                         *)
(* The filesystem, the ledger codec, the wallet runtime constructor and    *)
(* the resolver backends are collaborators: each call to one of them is    *)
(* appended to the trace of the running operation, and its outcome is an   *)
(* input of the operation (a fault, a runtime, a backend environment).     *)
(***************************************************************************)
EXTENDS Integers, Sequences, FiniteSets, TLC

VARIABLES args, fs, call

vars == <<args, fs, call>>

----------------------------------------------------------------------------
(* Bounds and value sets *)

\* verbosity levels 0..MaxVerbose (the -v flag is counted)
MaxVerbose == 2
\* ledgers 0..MaxLedger; ledger 0 is Stock::default()
MaxLedger == 1
\* `self.verbose > 1`
VerboseThreshold == 1

Verbosities == 0..MaxVerbose
Ledgers == 0..MaxLedger
DefaultStock == 0

Paths == {"data/bitcoin", "data/testnet"}
WalletPaths == {"data/bitcoin/default", "data/bitcoin/alt"}
Networks == {"bitcoin", "testnet"}
Urls == {"url1", "url2"}
Keys == {"xpubA", "xpubB"}

\* Option<T>: None is the empty sequence, Some(x) a sequence of one element
None == <<>>
Some(x) == <<x>>
Opt(S) == {None} \cup {Some(x) : x \in S}
IsSome(o) == o # None

----------------------------------------------------------------------------
(* The ledger codec and the filesystem *)

\* bytes written for a ledger
Serialize(l) == <<l>>

\* a file decodes when it holds exactly one encoded ledger
Decodable(b) == Len(b) = 1 /\ b[1] \in Ledgers

Deserialize(b) == b[1]

\* what one stock path can hold: no directory, an empty directory, or a
\* directory with a ledger file (valid, or cut short)
FileBytes == {<<>>} \cup {Serialize(l) : l \in Ledgers}
NoDir == [dir |-> FALSE, file |-> FALSE, bytes |-> <<>>]
EmptyDir == [dir |-> TRUE, file |-> FALSE, bytes |-> <<>>]
DirStates == {NoDir, EmptyDir} \cup {[dir |-> TRUE, file |-> TRUE, bytes |-> b] : b \in FileBytes}
FileSystems == [Paths -> DirStates]

\* points at which a filesystem call of one operation can fail
Faults == {"none", "load", "create_dir_all", "store", "store_partial"}

\* errors
NoErr == [variant |-> "", inner |-> ""]
IoNotFound == "io:NotFound"
IoOther == "io:Other"
DecodeFailure == "decode"

\* `?` and WalletError::from: the cause is carried unchanged in the variant
\* the From implementation of its type selects
WalletErrorFrom(type, cause) == [variant |-> type, inner |-> cause]

\* the diagnostic lines
ArityMessage == "no transaction resolver is specified"
WalletErrorResolver(msg) == [variant |-> "Resolver", inner |-> msg]

Ev(op, arg) == [op |-> op, arg |-> arg]

\* Stock::load(stock_path)
StockLoad(f, p, fault) ==
    IF fault = "load" THEN [ok |-> FALSE, err |-> IoOther, stock |-> None]
    ELSE IF ~f[p].file THEN [ok |-> FALSE, err |-> IoNotFound, stock |-> None]
    ELSE IF ~Decodable(f[p].bytes) THEN [ok |-> FALSE, err |-> DecodeFailure, stock |-> None]
    ELSE [ok |-> TRUE, err |-> "", stock |-> Some(Deserialize(f[p].bytes))]

\* fs::create_dir_all(stock_path)
CreateDirAll(f, p, fault) ==
    IF fault = "create_dir_all" THEN [ok |-> FALSE, fs |-> f]
    ELSE [ok |-> TRUE, fs |-> [f EXCEPT ![p].dir = TRUE]]

\* stock.store(stock_path)
StockStore(f, p, l, fault) ==
    IF fault = "store" \/ ~f[p].dir THEN [ok |-> FALSE, fs |-> f]
    ELSE IF fault = "store_partial"
    THEN [ok |-> FALSE, fs |-> [f EXCEPT ![p] = [dir |-> TRUE, file |-> TRUE, bytes |-> <<>>]]]
    ELSE [ok |-> TRUE, fs |-> [f EXCEPT ![p] = [dir |-> TRUE, file |-> TRUE, bytes |-> Serialize(l)]]]

----------------------------------------------------------------------------
(* Results *)

\* the value an operation returns, with the collaborator calls it made
\* (trace), the text it printed (diag) and the filesystem it left (fs)
Out(f) ==
    [ok |-> FALSE, err |-> NoErr, stock |-> None, stock_path |-> "",
     wallet_path |-> "", wallet |-> None, resolver |-> None, descr |-> None,
     branch |-> "", trace |-> <<>>, diag |-> <<>>, fs |-> f]

Verbose(a) == a.verbose > VerboseThreshold

Say(a, text) == IF Verbose(a) THEN <<text>> ELSE <<>>

----------------------------------------------------------------------------
(* RgbArgs::load_stock *)

\* a guard that looks at the error's variant and not at the I/O error's kind
IsNotFoundAnyError(err) == err.variant = "Deserialize"

\* the `matches!` guard of the recovery branch
IsNotFound(err) == err.variant = "Deserialize" /\ err.inner = IoNotFound

\* a recovery branch that never persists the new ledger
CreateNewNoStore(a, f, stock_path, fault) ==
    LET d1 == Say(a, "stock file is absent, creating a new one ... ")
        m == CreateDirAll(f, stock_path, fault)
        t == <<Ev("create_dir_all", stock_path)>>
    IN  IF ~m.ok
        THEN [Out(m.fs) EXCEPT !.err = WalletErrorFrom("io::Error", "create_dir_all"),
                               !.branch = "absent", !.trace = t, !.diag = d1]
        ELSE [Out(m.fs) EXCEPT !.ok = TRUE, !.stock = Some(DefaultStock),
                               !.branch = "absent", !.trace = t,
                               !.diag = d1 \o Say(a, "success")]

\* a recovery branch that drops the result of the store
CreateNewIgnoreStoreError(a, f, stock_path, fault) ==
    LET d1 == Say(a, "stock file is absent, creating a new one ... ")
        m == CreateDirAll(f, stock_path, fault)
        s == StockStore(m.fs, stock_path, DefaultStock, fault)
        t == <<Ev("create_dir_all", stock_path)>>
    IN  IF ~m.ok
        THEN [Out(m.fs) EXCEPT !.err = WalletErrorFrom("io::Error", "create_dir_all"),
                               !.branch = "absent", !.trace = t, !.diag = d1]
        ELSE [Out(s.fs) EXCEPT !.ok = TRUE, !.stock = Some(DefaultStock),
                               !.branch = "absent",
                               !.trace = t \o <<Ev("store", stock_path)>>,
                               !.diag = d1 \o Say(a, "success")]

\* a recovery branch whose directory creation sits inside the verbose block
CreateNewMkdirWhenVerbose(a, f, stock_path, fault) ==
    LET d1 == Say(a, "stock file is absent, creating a new one ... ")
        m == IF Verbose(a) THEN CreateDirAll(f, stock_path, fault)
             ELSE [ok |-> TRUE, fs |-> f]
        s == StockStore(m.fs, stock_path, DefaultStock, fault)
        t == IF Verbose(a) THEN <<Ev("create_dir_all", stock_path)>> ELSE <<>>
    IN  IF ~m.ok
        THEN [Out(m.fs) EXCEPT !.err = WalletErrorFrom("io::Error", "create_dir_all"),
                               !.branch = "absent", !.trace = t, !.diag = d1]
        ELSE IF ~s.ok
        THEN [Out(s.fs) EXCEPT !.err = WalletErrorFrom("SerializeError", "store"),
                               !.branch = "absent",
                               !.trace = t \o <<Ev("store", stock_path)>>,
                               !.diag = d1]
        ELSE [Out(s.fs) EXCEPT !.ok = TRUE, !.stock = Some(DefaultStock),
                               !.branch = "absent",
                               !.trace = t \o <<Ev("store", stock_path)>>,
                               !.diag = d1 \o Say(a, "success")]

\* the recovery branch: a default ledger, its directory, its file
CreateNew(a, f, stock_path, fault) ==
    LET d1 == Say(a, "stock file is absent, creating a new one ... ")
        stock == DefaultStock
        m == CreateDirAll(f, stock_path, fault)
        s == StockStore(m.fs, stock_path, stock, fault)
    IN  IF ~m.ok
        THEN [Out(m.fs) EXCEPT !.err = WalletErrorFrom("io::Error", "create_dir_all"),
                               !.branch = "absent",
                               !.trace = <<Ev("create_dir_all", stock_path)>>,
                               !.diag = d1]
        ELSE IF ~s.ok
        THEN [Out(s.fs) EXCEPT !.err = WalletErrorFrom("SerializeError", "store"),
                               !.branch = "absent",
                               !.trace = <<Ev("create_dir_all", stock_path),
                                           Ev("store", stock_path)>>,
                               !.diag = d1]
        ELSE [Out(s.fs) EXCEPT !.ok = TRUE,
                               !.stock = Some(stock),
                               !.branch = "absent",
                               !.trace = <<Ev("create_dir_all", stock_path),
                                           Ev("store", stock_path)>>,
                               !.diag = d1 \o Say(a, "success")]

load_stock(a, f, stock_path, fault) ==
    LET d0 == Say(a, "Loading stock ... ")
        l == StockLoad(f, stock_path, fault)
        t0 == <<Ev("load", stock_path)>>
        err == WalletErrorFrom("Deserialize", l.err)
        c == CreateNew(a, f, stock_path, fault)
    IN  IF l.ok
        THEN [Out(f) EXCEPT !.ok = TRUE, !.stock = l.stock, !.branch = "loaded",
                            !.trace = t0, !.diag = d0]
        ELSE IF IsNotFound(err)
        THEN [c EXCEPT !.trace = t0 \o c.trace, !.diag = d0 \o c.diag]
        ELSE [Out(f) EXCEPT !.err = err, !.branch = "damaged", !.trace = t0,
                            !.diag = d0 \o <<"stock file is damaged, failing">>]

----------------------------------------------------------------------------
(* The bindings *)

WalletStates == {"wallet"}
Runtimes == [path : WalletPaths, wallet : WalletStates]

\* self.general.base_dir()
base_dir(a) == a.base_dir

\* self.inner.bp_runtime::<RgbDescr>(config): the runtime the wallet
\* constructor returns for this configuration (bp), or its failure
bp_runtime(a, bp) ==
    IF IsSome(bp) THEN [ok |-> TRUE, wallet |-> bp[1], err |-> NoErr]
    ELSE [ok |-> FALSE, wallet |-> [path |-> "", wallet |-> ""],
          err |-> WalletErrorFrom("bp_runtime", "runtime")]

rgb_stock(a, f, fault) ==
    LET stock_path == base_dir(a)
        r == load_stock(a, f, stock_path, fault)
    IN  IF ~r.ok THEN r
        ELSE [r EXCEPT !.stock_path = stock_path,
                       !.trace = r.trace \o <<Ev("StoredStock::attach", stock_path)>>]

\* a binding that reads the ledger from the base directory again
rgb_wallet_from_stock_reload(a, f, bp, stock) ==
    LET stock_path == base_dir(a)
        r == load_stock(a, f, stock_path, "none")
        w == bp_runtime(a, bp)
        t == r.trace \o <<Ev("bp_runtime", "")>>
    IN  IF ~r.ok THEN r
        ELSE IF ~w.ok
        THEN [Out(r.fs) EXCEPT !.err = w.err, !.trace = t]
        ELSE [Out(r.fs) EXCEPT !.ok = TRUE,
                               !.stock_path = stock_path,
                               !.wallet_path = w.wallet.path,
                               !.stock = r.stock,
                               !.wallet = Some(w.wallet.wallet),
                               !.trace = t \o <<Ev("StoredWallet::attach", stock_path)>>]

\* a binding that hands the two paths to attach in the other order
rgb_wallet_from_stock_swapped(a, f, bp, stock) ==
    LET stock_path == base_dir(a)
        w == bp_runtime(a, bp)
        t == <<Ev("bp_runtime", "")>>
    IN  IF ~w.ok
        THEN [Out(f) EXCEPT !.err = w.err, !.trace = t]
        ELSE [Out(f) EXCEPT !.ok = TRUE,
                            !.stock_path = w.wallet.path,
                            !.wallet_path = stock_path,
                            !.stock = Some(stock),
                            !.wallet = Some(w.wallet.wallet),
                            !.trace = t \o <<Ev("StoredWallet::attach", w.wallet.path)>>]

rgb_wallet_from_stock(a, f, bp, stock) ==
    LET stock_path == base_dir(a)
        w == bp_runtime(a, bp)
        wallet_path == w.wallet.path
        t == <<Ev("bp_runtime", "")>>
    IN  IF ~w.ok
        THEN [Out(f) EXCEPT !.err = w.err, !.trace = t]
        ELSE [Out(f) EXCEPT !.ok = TRUE,
                            !.stock_path = stock_path,
                            !.wallet_path = wallet_path,
                            !.stock = Some(stock),
                            !.wallet = Some(w.wallet.wallet),
                            !.trace = t \o <<Ev("StoredWallet::attach", stock_path)>>]

rgb_wallet(a, f, fault, bp) ==
    LET stock_path == base_dir(a)
        r == load_stock(a, f, stock_path, fault)
        b == rgb_wallet_from_stock(a, r.fs, bp, r.stock[1])
    IN  IF ~r.ok THEN r
        ELSE [b EXCEPT !.branch = r.branch,
                       !.trace = r.trace \o b.trace,
                       !.diag = r.diag \o b.diag]

----------------------------------------------------------------------------
(* RgbArgs::resolver *)

\* what the backends do in one call: whether a constructor connects, the
\* network the backend is on, whether the check's own query gets through
Envs == [conn : {"ok", "fail"}, bnet : Networks, chk : {"ok", "fail"}]
NoEnv == [conn |-> "ok", bnet |-> "bitcoin", chk |-> "ok"]

NoSelection == [found |-> FALSE, kind |-> "", url |-> ""]
Selection(kind, url) == [found |-> TRUE, kind |-> kind, url |-> url[1]]

\* a match that takes the first endpoint that is set
SelectFirstPresent(a) ==
    CASE IsSome(a.esplora) -> Selection("esplora_blocking", a.esplora)
      [] ~IsSome(a.esplora) /\ IsSome(a.electrum)
            -> Selection("electrum_blocking", a.electrum)
      [] ~IsSome(a.esplora) /\ ~IsSome(a.electrum) /\ IsSome(a.mempool)
            -> Selection("mempool_blocking", a.mempool)
      [] OTHER -> NoSelection

\* the match on (esplora, electrum, mempool)
Select(a) ==
    CASE ~IsSome(a.esplora) /\ IsSome(a.electrum) /\ ~IsSome(a.mempool)
            -> Selection("electrum_blocking", a.electrum)
      [] IsSome(a.esplora) /\ ~IsSome(a.electrum) /\ ~IsSome(a.mempool)
            -> Selection("esplora_blocking", a.esplora)
      [] ~IsSome(a.esplora) /\ ~IsSome(a.electrum) /\ IsSome(a.mempool)
            -> Selection("mempool_blocking", a.mempool)
      [] OTHER -> NoSelection

\* AnyResolver::{electrum,esplora,mempool}_blocking(url, None)
Construct(kind, url, env) ==
    IF env.conn = "fail"
    THEN [ok |-> FALSE, err |-> "connect",
          resolver |-> [kind |-> "", url |-> "", network |-> ""]]
    ELSE [ok |-> TRUE, err |-> "",
          resolver |-> [kind |-> kind, url |-> url, network |-> env.bnet]]

\* an arm that constructs a second time when the first construction fails
BuildRetry(sel, env) ==
    LET c == Construct(sel.kind, sel.url, env)
        t == <<Ev(sel.kind, sel.url)>>
    IN  [ok |-> c.ok, err |-> c.err, resolver |-> c.resolver,
         trace |-> IF c.ok THEN t ELSE t \o t]

\* the arm of the match that was selected, evaluated
Build(sel, env) ==
    LET c == Construct(sel.kind, sel.url, env)
    IN  [ok |-> c.ok, err |-> c.err, resolver |-> c.resolver,
         trace |-> <<Ev(sel.kind, sel.url)>>]

\* AnyResolver::check(network)
Check(r, network, env) ==
    IF env.chk = "fail" THEN [ok |-> FALSE, err |-> "check: no answer"]
    ELSE IF r.network # network THEN [ok |-> FALSE, err |-> "check: network mismatch"]
    ELSE [ok |-> TRUE, err |-> ""]

\* a check against the main network whatever is configured
checked_network_fixed(a) == "bitcoin"

\* the argument of resolver.check
checked_network(a) == a.network

resolver(a, f, env) ==
    LET sel == Select(a)
        b == Build(sel, env)
        k == Check(b.resolver, checked_network(a), env)
        tk == b.trace \o <<Ev("check", checked_network(a))>>
    IN  IF ~sel.found
        THEN [Out(f) EXCEPT !.err = WalletErrorResolver(ArityMessage), !.branch = "arity"]
        ELSE IF ~b.ok
        THEN [Out(f) EXCEPT !.err = WalletErrorResolver(b.err), !.branch = "construct",
                            !.trace = b.trace]
        ELSE IF ~k.ok
        THEN [Out(f) EXCEPT !.err = WalletErrorFrom("check", k.err), !.branch = "check",
                            !.trace = tk]
        ELSE [Out(f) EXCEPT !.ok = TRUE, !.resolver = Some(b.resolver),
                            !.branch = "resolved", !.trace = tk]

----------------------------------------------------------------------------
(* DescrRgbOpts *)

is_some(a) == IsSome(a.tapret_key_only) \/ IsSome(a.wpkh)

Descr(variant, key) == [variant |-> variant, key |-> key]

descriptor(a) ==
    IF IsSome(a.tapret_key_only) THEN Some(Descr("TapretKey", a.tapret_key_only[1]))
    ELSE IF IsSome(a.wpkh) THEN Some(Descr("Wpkh", a.wpkh[1]))
    ELSE None

----------------------------------------------------------------------------
(* The state machine *)

\* the record of the last operation: its name, its inputs, the filesystem
\* it started from and what it returned.  first holds the ledger returned by
\* the call just before, when that call was a load_stock of the same path
\* that created the ledger
Call(op, path, fault, given, bp, env, first, pre, out) ==
    [op |-> op, path |-> path, fault |-> fault, given |-> given, bp |-> bp,
     env |-> env, first |-> first, pre |-> pre, out |-> out]

NoCall == Call("", "", "none", None, None, NoEnv, None, fs, Out(fs))

Created(c, p) ==
    IF c.op = "load_stock" /\ c.path = p /\ c.out.branch = "absent" /\ c.out.ok
    THEN c.out.stock ELSE None

ArgsOf(V, B, N, E1, E2, E3, K1, K2) ==
    [verbose : V, base_dir : B, network : N, esplora : E1, electrum : E2,
     mempool : E3, tapret_key_only : K1, wpkh : K2]

\* the ledger store and the bindings: every filesystem, verbosity and base
\* directory; of the resolver endpoints, esplora alone is set or not
StoreArgs ==
    ArgsOf(Verbosities, Paths, {"bitcoin"}, Opt({"url1"}), {None}, {None},
           {None}, {None})

Init ==
    /\ args \in StoreArgs
    /\ fs \in FileSystems
    /\ call = NoCall

LoadStockCall ==
    \E p \in Paths, fault \in Faults :
        LET r == load_stock(args, fs, p, fault)
        IN  /\ fs' = r.fs
            /\ call' = Call("load_stock", p, fault, None, None, NoEnv,
                            Created(call, p), fs, r)
            /\ UNCHANGED args

RgbStockCall ==
    \E fault \in Faults :
        LET r == rgb_stock(args, fs, fault)
        IN  /\ fs' = r.fs
            /\ call' = Call("rgb_stock", base_dir(args), fault, None, None, NoEnv,
                            None, fs, r)
            /\ UNCHANGED args

RgbWalletCall ==
    \E fault \in Faults, bp \in Opt(Runtimes) :
        LET r == rgb_wallet(args, fs, fault, bp)
        IN  /\ fs' = r.fs
            /\ call' = Call("rgb_wallet", base_dir(args), fault, None, bp, NoEnv,
                            None, fs, r)
            /\ UNCHANGED args

RgbWalletFromStockCall ==
    \E stock \in Ledgers, bp \in Opt(Runtimes) :
        LET r == rgb_wallet_from_stock(args, fs, bp, stock)
        IN  /\ fs' = r.fs
            /\ call' = Call("rgb_wallet_from_stock", base_dir(args), "none",
                            Some(stock), bp, NoEnv, None, fs, r)
            /\ UNCHANGED args

ResolverCall ==
    \E env \in Envs :
        LET r == resolver(args, fs, env)
        IN  /\ fs' = r.fs
            /\ call' = Call("resolver", "", "none", None, None, env, None, fs, r)
            /\ UNCHANGED args

DescriptorCall ==
    LET r == [Out(fs) EXCEPT !.ok = is_some(args), !.descr = descriptor(args),
                             !.branch = "descriptor"]
    IN  /\ fs' = r.fs
        /\ call' = Call("descriptor", "", "none", None, None, NoEnv, None, fs, r)
        /\ UNCHANGED args

Next ==
    \/ LoadStockCall
    \/ RgbStockCall
    \/ RgbWalletCall
    \/ RgbWalletFromStockCall
    \/ ResolverCall

Spec == Init /\ [][Next]_vars

\* the selections: every resolver and descriptor configuration, on one
\* filesystem
SelectArgs ==
    ArgsOf({0}, {"data/bitcoin"}, Networks, Opt(Urls), Opt(Urls), Opt(Urls),
           Opt(Keys), Opt(Keys))

InitSelect ==
    /\ args \in SelectArgs
    /\ fs = [p \in Paths |-> NoDir]
    /\ call = NoCall

NextSelect ==
    \/ ResolverCall
    \/ DescriptorCall

SpecSelect == InitSelect /\ [][NextSelect]_vars

----------------------------------------------------------------------------
(* Properties *)

out == call.out

\* the names of the collaborator calls of the last operation, in order
Ops == [i \in DOMAIN out.trace |-> out.trace[i].op]

Calls(op) == Cardinality({i \in DOMAIN Ops : Ops[i] = op})

Touches == \E i \in DOMAIN Ops : Ops[i] \in {"create_dir_all", "store"}

\* what Stock::load answered in the last operation
Loaded == StockLoad(call.pre, call.path, call.fault)

\* the ledger persisted at path p of filesystem f, if one decodes
Persisted(f, p) ==
    IF p \in Paths /\ f[p].file /\ Decodable(f[p].bytes)
    THEN Some(Deserialize(f[p].bytes)) ELSE None

\* the last operation run again from the same filesystem with the same
\* inputs under the arguments a
Rerun(c, a) ==
    CASE c.op = "load_stock" -> load_stock(a, c.pre, c.path, c.fault)
      [] c.op = "rgb_stock" -> rgb_stock(a, c.pre, c.fault)
      [] c.op = "rgb_wallet" -> rgb_wallet(a, c.pre, c.fault, c.bp)
      [] c.op = "rgb_wallet_from_stock" -> rgb_wallet_from_stock(a, c.pre, c.bp, c.given[1])
      [] c.op = "resolver" -> resolver(a, c.pre, c.env)
      [] OTHER -> c.out

Silent(r) == [r EXCEPT !.diag = <<>>]

\* C1: a load_stock of a path right after a load_stock of the same path
\* that found no ledger and created one returns the same (default) ledger,
\* unless its own read fails, and creates no directory, writes no file and
\* leaves the filesystem as the first call left it.
C1_SecondLoadIdempotent ==
    (call.op = "load_stock" /\ IsSome(call.first)) =>
        /\ ~Touches
        /\ fs = call.pre
        /\ out.ok => (out.stock = call.first /\ out.stock = Some(DefaultStock))
        /\ call.fault # "load" => out.ok

C1_Witness ==
    /\ call.op = "load_stock"
    /\ IsSome(call.first)
    /\ out.ok
    /\ out.branch = "loaded"

\* C2: when the load fails with anything but "not found", load_stock returns
\* that error, returns no ledger, calls neither create_dir_all nor store, and
\* the filesystem (the file's bytes among it) is as it was.
C2_DamagedIsFatal ==
    (call.op = "load_stock" /\ ~Loaded.ok /\ Loaded.err # IoNotFound) =>
        /\ ~out.ok
        /\ out.stock = None
        /\ out.err = WalletErrorFrom("Deserialize", Loaded.err)
        /\ out.trace = <<Ev("load", call.path)>>
        /\ fs = call.pre
        /\ fs[call.path].bytes = call.pre[call.path].bytes

C2_Witness ==
    /\ call.op = "load_stock"
    /\ call.pre[call.path].file
    /\ ~Decodable(call.pre[call.path].bytes)
    /\ out.err.inner = DecodeFailure
    /\ fs[call.path].file

\* C9: an operation changes the filesystem only when its load answered
\* "not found"; load_stock then calls create_dir_all first and store at most
\* once after it, returns the default ledger only when the store succeeded and
\* returns the failure of either call, with no store after a failed
\* create_dir_all; a successful load returns the loaded ledger and changes
\* nothing; after a successful load_stock the ledger persisted at the path is
\* the ledger returned.
C9_EffectsOnlyWhenAbsent ==
    /\ fs # call.pre =>
        /\ call.op \in {"load_stock", "rgb_stock", "rgb_wallet"}
        /\ ~Loaded.ok /\ Loaded.err = IoNotFound
    /\ call.op = "load_stock" =>
        /\ Ops \in {<<"load">>, <<"load", "create_dir_all">>,
                    <<"load", "create_dir_all", "store">>}
        /\ Len(Ops) > 1 => (~Loaded.ok /\ Loaded.err = IoNotFound)
        /\ Loaded.ok =>
            (out.ok /\ out.stock = Loaded.stock /\ fs = call.pre /\ Ops = <<"load">>)
        /\ (out.ok /\ ~Loaded.ok) =>
            /\ out.stock = Some(DefaultStock)
            /\ Ops = <<"load", "create_dir_all", "store">>
            /\ call.fault \notin {"create_dir_all", "store", "store_partial"}
        /\ (~Loaded.ok /\ Loaded.err = IoNotFound /\ call.fault = "create_dir_all") =>
            /\ ~out.ok
            /\ out.err = WalletErrorFrom("io::Error", "create_dir_all")
            /\ Ops = <<"load", "create_dir_all">>
            /\ fs = call.pre
        /\ (~Loaded.ok /\ Loaded.err = IoNotFound
                /\ call.fault \in {"store", "store_partial"}) =>
            /\ ~out.ok
            /\ out.err = WalletErrorFrom("SerializeError", "store")
        /\ out.ok => Persisted(fs, call.path) = out.stock

C9_Witness ==
    /\ call.op = "load_stock"
    /\ fs # call.pre
    /\ out.ok
    /\ ~call.pre[call.path].dir

\* C5: rgb_wallet_from_stock never calls load, create_dir_all or store and
\* leaves the filesystem as it was, whether it succeeds or fails, and the
\* handle it returns holds the ledger it was given; rgb_wallet calls load
\* exactly once.
C5_NoReread ==
    /\ call.op = "rgb_wallet_from_stock" =>
        /\ Calls("load") = 0
        /\ ~Touches
        /\ fs = call.pre
        /\ out.ok => out.stock = call.given
    /\ call.op = "rgb_wallet" => Calls("load") = 1

C5_Witness ==
    /\ call.op = "rgb_wallet_from_stock"
    /\ out.ok
    /\ IsSome(Persisted(call.pre, call.path))
    /\ Persisted(call.pre, call.path) # call.given

\* the handle's paths come from this call's arguments and runtime
HandlePaths ==
    /\ out.stock_path = args.base_dir
    /\ IsSome(call.bp)
    /\ out.wallet_path = call.bp[1].path

\* C7 (as stated): in every handle returned by rgb_wallet or
\* rgb_wallet_from_stock the ledger path is the base directory, the wallet
\* path is the runtime's, and the ledger held is the one at the ledger path.
C7_HandleLedgerFromItsPath ==
    (call.op \in {"rgb_wallet", "rgb_wallet_from_stock"} /\ out.ok) =>
        /\ HandlePaths
        /\ out.stock = Persisted(fs, out.stock_path)

\* C7 (amended): in every handle returned by rgb_wallet or
\* rgb_wallet_from_stock the ledger path is the base directory and the wallet
\* path is the path of the runtime constructed in that call; the ledger held
\* is the one at the ledger path for rgb_wallet, and the one the caller gave
\* for rgb_wallet_from_stock.
C7_HandlePaths ==
    (call.op \in {"rgb_wallet", "rgb_wallet_from_stock"} /\ out.ok) =>
        /\ HandlePaths
        /\ call.op = "rgb_wallet" => out.stock = Persisted(fs, out.stock_path)
        /\ call.op = "rgb_wallet_from_stock" => out.stock = call.given

C7_Witness ==
    /\ call.op = "rgb_wallet_from_stock"
    /\ out.ok
    /\ out.stock # Persisted(fs, out.stock_path)
    /\ out.stock_path = args.base_dir

\* C8: run again from the same filesystem with the same inputs under any
\* other verbosity, the last operation returns the same value, takes the same
\* branch, makes the same collaborator calls and leaves the same filesystem.
C8_VerbosityOnlyDiagnostic ==
    call.op # "" =>
        \A v \in Verbosities :
            Silent(Rerun(call, [args EXCEPT !.verbose = v])) = Silent(out)

C8_Witness ==
    /\ call.op = "load_stock"
    /\ Verbose(args)
    /\ out.ok
    /\ out.branch = "absent"
    /\ Rerun(call, [args EXCEPT !.verbose = 0]).diag # out.diag

Endpoints == {"esplora", "electrum", "mempool"}
Present == {e \in Endpoints : IsSome(args[e])}
Constructors == {"esplora_blocking", "electrum_blocking", "mempool_blocking"}
Constructed == {i \in DOMAIN Ops : Ops[i] \in Constructors}

\* C3: resolver calls a backend constructor exactly when one endpoint is set,
\* and then that backend's constructor with that endpoint's URL; with none,
\* two or three set it returns one and the same error and calls neither a
\* constructor nor the check.
C3_ExactlyOneEndpoint ==
    call.op = "resolver" =>
        /\ Constructed # {} <=> Cardinality(Present) = 1
        /\ \A e \in Endpoints :
            Present = {e} =>
                /\ out.trace[1] =
                    Ev(CASE e = "esplora" -> "esplora_blocking"
                         [] e = "electrum" -> "electrum_blocking"
                         [] OTHER -> "mempool_blocking", args[e][1])
                /\ out.ok => /\ out.resolver[1].kind = out.trace[1].op
                             /\ out.resolver[1].url = args[e][1]
        /\ Cardinality(Present) # 1 =>
            /\ ~out.ok
            /\ out.resolver = None
            /\ out.err = WalletErrorResolver(ArityMessage)
            /\ out.trace = <<>>

C3_Witness ==
    /\ call.op = "resolver"
    /\ Cardinality(Present) = 2
    /\ out.branch = "arity"

\* C4: a resolver is returned only when the network of its backend is the
\* configured one; with one endpoint set, a backend that connects and is on
\* another network makes resolver fail with the check's error, which is not
\* of the variant of the arity error, and no resolver is returned.
C4_NetworkChecked ==
    call.op = "resolver" =>
        /\ out.ok => out.resolver[1].network = args.network
        /\ (Cardinality(Present) = 1 /\ call.env.conn = "ok"
                /\ call.env.bnet # args.network) =>
            /\ ~out.ok
            /\ out.resolver = None
            /\ out.err.variant # WalletErrorResolver(ArityMessage).variant
            /\ call.env.chk = "ok" =>
                out.err = WalletErrorFrom("check", "check: network mismatch")

C4_Witness ==
    /\ call.op = "resolver"
    /\ out.branch = "check"
    /\ call.env.chk = "ok"
    /\ call.env.bnet # args.network

\* C10: resolver calls at most one constructor, once, and the check at most
\* once and only after a constructor that succeeded; a failed construction is
\* returned without a check, a failed check without another construction.
C10_NoRetry ==
    call.op = "resolver" =>
        /\ Cardinality(Constructed) <= 1
        /\ Calls("check") <= 1
        /\ Len(Ops) <= 2
        /\ Calls("check") = 1 => (Ops[1] \in Constructors /\ Ops[2] = "check"
                                    /\ call.env.conn = "ok")
        /\ (Constructed # {} /\ call.env.conn = "fail") =>
            (~out.ok /\ Len(Ops) = 1 /\ out.err = WalletErrorResolver("connect"))
        /\ out.branch = "check" => (~out.ok /\ Len(Ops) = 2)

C10_Witness ==
    /\ call.op = "resolver"
    /\ out.branch = "construct"
    /\ Len(Ops) = 1

\* C6: descriptor yields Tapret(k) only when the tapret key alone is set,
\* Wpkh(k) only when the wpkh key alone is set, nothing when neither is set,
\* and with both keys set selects neither variant.
C6_ExactlyOneDescriptor ==
    call.op = "descriptor" =>
        /\ \A k \in Keys :
            /\ out.descr = Some(Descr("TapretKey", k)) =>
                (args.tapret_key_only = Some(k) /\ args.wpkh = None)
            /\ out.descr = Some(Descr("Wpkh", k)) =>
                (args.wpkh = Some(k) /\ args.tapret_key_only = None)
        /\ (args.tapret_key_only = None /\ args.wpkh = None) => out.descr = None
        /\ (IsSome(args.tapret_key_only) /\ IsSome(args.wpkh)) => out.descr = None

====
